---- MODULE Spec2Model ----
(***************************************************************************)
(* Model of the diary data hooks of gameday-diary                          *)
(* (src/src/hooks/useGameLogs.ts) and of the query cache they drive.       *)
(*                                                                         *)
(* JavaScript values are records with a kind field `k`, so that undefined, *)
(* null and proper values of one field stay comparable.  Free text is a    *)
(* sequence of runs [ws, n]: n whitespace characters (ws) or n other       *)
(* characters, which lets trim() and slice() be computed at the real caps. *)
(***************************************************************************)
EXTENDS Integers, Sequences, FiniteSets, TLC

VARIABLES
    vInput,     \* the gameLog handed to validateGameLogInput
    vOutput,    \* what validateGameLogInput did with it
    session,    \* useAuth().user: the signed-in user's id, NoUser when there is none
    filters,    \* the Timeline filter state (its mode filter)
    store,      \* the rows of the remote table user_game_logs, oldest first
    nextId,     \* the id the remote table gives the next row
    clock,      \* the current time
    cache,      \* the query cache: query key -> [data, fetch, isInvalidated]
    mutations,  \* the mutations started through the hooks, by slot
    held,       \* history, kept by some specifications only: by slot, what the
                \* queries a delete patches held when the delete was started
    welcome     \* the WelcomeModal: the hasSeenWelcome item of localStorage, the
                \* state of the component in each tab, and how often it was mounted
                \* and its dialog opened

vars == <<vInput, vOutput, session, filters, store, nextId, clock, cache, mutations, held, welcome>>
crudVars == <<session, filters, store, nextId, clock, cache, mutations, held>>

----------------------------------------------------------------------------
(* Bounds of the model.                                                    *)

\* Longest free text tried, in runs of like characters.
MaxRuns == 3
\* Mutations that may be under way at once.
MaxMutations == 2
\* Rows the remote table ever holds (ids are 1 .. MaxRows).
MaxRows == 2
\* The time at which the last update may start.
MaxClock == 3
\* Browser tabs that share the localStorage.
MaxTabs == 2
\* Times the WelcomeModal is mounted, all tabs together.
MaxMounts == 3

----------------------------------------------------------------------------
(* JavaScript values.                                                      *)

JsUndefinedStr == [k |-> "undefined", s |-> ""]
JsStr(s) == [k |-> "string", s |-> s]

JsUndefinedNum == [k |-> "undefined", twice |-> 0]
JsNullNum == [k |-> "null", twice |-> 0]
\* The number h/2: the integers are the even h.
JsHalves(h) == [k |-> "number", twice |-> h]
JsNum(n) == JsHalves(2 * n)

JsUndefinedText == [k |-> "undefined", runs |-> <<>>]
JsNullText == [k |-> "null", runs |-> <<>>]
JsText(r) == [k |-> "string", runs |-> r]

\* !x of an optional string: undefined, null and "" are falsy.
FalsyStr(x) == x.k # "string" \/ x.s = ""

\* Number.isInteger(x)
NumberIsInteger(x) == x.k = "number" /\ x.twice % 2 = 0

RECURSIVE StrLen(_)
StrLen(r) == IF r = <<>> THEN 0 ELSE Head(r).n + StrLen(Tail(r))

\* String.prototype.trim on runs.
RECURSIVE TrimStart(_)
TrimStart(r) ==
    IF r = <<>> THEN <<>>
    ELSE IF Head(r).ws THEN TrimStart(Tail(r)) ELSE r

RECURSIVE TrimEnd(_)
TrimEnd(r) ==
    IF r = <<>> THEN <<>>
    ELSE IF r[Len(r)].ws THEN TrimEnd(SubSeq(r, 1, Len(r) - 1)) ELSE r

Trim(r) == TrimEnd(TrimStart(r))

\* String.prototype.slice(0, cap) on runs.
RECURSIVE Slice0(_, _)
Slice0(r, cap) ==
    IF r = <<>> \/ cap <= 0 THEN <<>>
    ELSE IF Head(r).n <= cap
         THEN <<Head(r)>> \o Slice0(Tail(r), cap - Head(r).n)
         ELSE <<[Head(r) EXCEPT !.n = cap]>>

StartsWithWs(r) == r # <<>> /\ Head(r).ws
EndsWithWs(r) == r # <<>> /\ r[Len(r)].ws

----------------------------------------------------------------------------
(* validateGameLogInput                                                    *)

CompanyCap == 255
NotesCap == 1000
RootedForCap == 100

ValidModes == {"attended", "watched"}

\* Mutant: the text is cut before it is trimmed.
SanitizeTextCutFirst(t, cap) ==
    IF t.k # "string" THEN JsNullText
    ELSE LET cut == Trim(Slice0(t.runs, cap))
         IN  IF cut = <<>> THEN JsNullText ELSE JsText(cut)

\* text?.trim().slice(0, cap) || null
SanitizeText(t, cap) ==
    IF t.k # "string" THEN JsNullText
    ELSE LET cut == Slice0(Trim(t.runs), cap)
         IN  IF cut = <<>> THEN JsNullText ELSE JsText(cut)

sanitizedGameLog(gameLog) ==
    [gameLog EXCEPT
        !.company = SanitizeText(gameLog.company, CompanyCap),
        !.notes = SanitizeText(gameLog.notes, NotesCap),
        !.rooted_for = SanitizeText(gameLog.rooted_for, RootedForCap)]

\* Mutant: the rating has no upper limit.
ValidationErrorNoUpperLimit(gameLog) ==
    IF FalsyStr(gameLog.game_id) \/ FalsyStr(gameLog.mode)
    THEN "Game ID and mode are required"
    ELSE IF gameLog.mode.s \notin ValidModes
    THEN "Invalid mode"
    ELSE IF /\ gameLog.rating.k \notin {"undefined", "null"}
            /\ \/ ~NumberIsInteger(gameLog.rating)
               \/ gameLog.rating.twice < 2 * 1
    THEN "Rating must be an integer between 1 and 5"
    ELSE ""

\* The error validateGameLogInput throws, "" when it throws none.
ValidationError(gameLog) ==
    IF FalsyStr(gameLog.game_id) \/ FalsyStr(gameLog.mode)
    THEN "Game ID and mode are required"
    ELSE IF gameLog.mode.s \notin ValidModes
    THEN "Invalid mode"
    ELSE IF /\ gameLog.rating.k \notin {"undefined", "null"}
            /\ \/ ~NumberIsInteger(gameLog.rating)
               \/ gameLog.rating.twice < 2 * 1
               \/ gameLog.rating.twice > 2 * 5
    THEN "Rating must be an integer between 1 and 5"
    ELSE ""

validateGameLogInput(gameLog) ==
    LET e == ValidationError(gameLog)
    IN  IF e # ""
        THEN [ok |-> FALSE, error |-> e, value |-> gameLog]
        ELSE [ok |-> TRUE, error |-> "", value |-> sanitizedGameLog(gameLog)]

----------------------------------------------------------------------------
(* Inputs tried.                                                           *)

BlankLog ==
    [game_id |-> JsStr("G1"), mode |-> JsStr("attended"),
     user_id |-> JsUndefinedStr,
     company |-> JsUndefinedText, rating |-> JsUndefinedNum,
     rooted_for |-> JsUndefinedText, notes |-> JsUndefinedText]

\* Run lengths around a cap.
RunLens(cap) == {1, cap - 1, cap, cap + 1}
Runs(cap) == [ws : BOOLEAN, n : RunLens(cap)]

RECURSIVE SeqsUpTo(_, _)
SeqsUpTo(S, n) ==
    IF n = 0 THEN {<<>>}
    ELSE LET shorter == SeqsUpTo(S, n - 1)
         IN  shorter \cup {Append(q, x) : q \in shorter, x \in S}

TextInputs(cap) ==
    {JsUndefinedText, JsNullText} \cup {JsText(r) : r \in SeqsUpTo(Runs(cap), MaxRuns)}

StrInputs == {JsUndefinedStr, JsStr(""), JsStr("G1")}
ModeInputs == {JsUndefinedStr, JsStr(""), JsStr("attended"), JsStr("watched"), JsStr("played")}
\* undefined, null, and the numbers -1/2 .. 13/2 in halves
RatingInputs == {JsUndefinedNum, JsNullNum} \cup {JsHalves(h) : h \in -1 .. 13}

ValidatorInputs ==
    {[BlankLog EXCEPT !.company = t] : t \in TextInputs(CompanyCap)}
    \cup {[BlankLog EXCEPT !.notes = t] : t \in TextInputs(NotesCap)}
    \cup {[BlankLog EXCEPT !.rooted_for = t] : t \in TextInputs(RootedForCap)}
    \cup {[BlankLog EXCEPT !.game_id = g, !.mode = m, !.rating = r] :
            g \in StrInputs, m \in ModeInputs, r \in RatingInputs}

NotValidated == [done |-> FALSE, ok |-> FALSE, error |-> "", value |-> BlankLog]

----------------------------------------------------------------------------
(* The remote table user_game_logs.                                        *)

NoUser == ""

\* Mutant: the hooks take any session for a user's.
UnauthenticatedNever(u) == FALSE

\* !user
Unauthenticated(u) == u = NoUser

\* The empty string as a game log id; the ids the table gives are 1, 2, ...
EmptyId == 0

RECURSIVE Reverse(_)
Reverse(q) == IF q = <<>> THEN <<>> ELSE Append(Reverse(Tail(q)), Head(q))

\* insert(payload): the table gives the id and both timestamps; a column the
\* payload leaves undefined is null.
InsertRow(payload, id, now) ==
    [id |-> id,
     user_id |-> payload.user_id.s,
     game_id |-> payload.game_id.s,
     mode |-> payload.mode.s,
     company |-> payload.company,
     rating |-> IF payload.rating.k = "undefined" THEN JsNullNum ELSE payload.rating,
     rooted_for |-> payload.rooted_for,
     notes |-> payload.notes,
     created_at |-> now,
     updated_at |-> now]

\* select('*').eq('user_id', u).order('created_at', { ascending: false })
SelectGameLogs(rows, u) == Reverse(SelectSeq(rows, LAMBDA r : r.user_id = u))

\* Mutant: the filter is on the id alone.
MatchesIdOnly(r, id, u) == r.id = id

\* The filter .eq('id', id).eq('user_id', u) of update and delete.
Matches(r, id, u) == r.id = id /\ r.user_id = u

\* delete().eq('id', id).eq('user_id', u)
DeleteRows(rows, id, u) == SelectSeq(rows, LAMBDA r : ~Matches(r, id, u))

\* Mutant: the game_id the validator was given is written too.
UpdateRowWithGameId(r, fields) ==
    [r EXCEPT
        !.game_id = "temp",
        !.mode = fields.mode.s,
        !.company = fields.company,
        !.rating = IF fields.rating.k = "undefined" THEN @ ELSE fields.rating,
        !.rooted_for = fields.rooted_for,
        !.notes = fields.notes,
        !.updated_at = fields.updated_at]

\* update(fields).eq('id', id).eq('user_id', u): a field the payload leaves
\* undefined is not sent, and keeps its value.
UpdateRow(r, fields) ==
    [r EXCEPT
        !.mode = fields.mode.s,
        !.company = fields.company,
        !.rating = IF fields.rating.k = "undefined" THEN @ ELSE fields.rating,
        !.rooted_for = fields.rooted_for,
        !.notes = fields.notes,
        !.updated_at = fields.updated_at]

UpdateRows(rows, id, u, fields) ==
    [i \in DOMAIN rows |->
        IF Matches(rows[i], id, u) THEN UpdateRow(rows[i], fields) ELSE rows[i]]

\* The logged games of user u under the mode filter f ("" filters nothing):
\* each game joined with the user's log of it.
SelectLoggedGames(rows, u, f) ==
    LET logs == SelectSeq(SelectGameLogs(rows, u), LAMBDA r : f = "" \/ r.mode = f)
    IN  [i \in DOMAIN logs |-> [game_id |-> logs[i].game_id, logData |-> logs[i]]]

----------------------------------------------------------------------------
(* The query cache.                                                        *)

GameLogsKey(u) == <<"game-logs", u>>
LoggedGamesKey(u, f) == <<"logged-games", u, f>>
\* The key ['logged-games', user?.id] that the delete hook reads and restores.
LoggedGamesUserKey(u) == <<"logged-games", u>>

ModeFilters == {"", "attended"}

NoData == [has |-> FALSE, rows |-> <<>>]
Data(rows) == [has |-> TRUE, rows |-> rows]

FetchIdle == [st |-> "idle", rows |-> <<>>]
FetchSent == [st |-> "sent", rows |-> <<>>]
FetchReplied(rows) == [st |-> "replied", rows |-> rows]

NewQuery == [data |-> NoData, fetch |-> FetchIdle, isInvalidated |-> FALSE]

\* The queries the mounted Timeline observes, and would refetch: both hooks
\* are enabled only with a user.
ObservedKeys(u, f) == {GameLogsKey(u), LoggedGamesKey(u, f)}
ActiveKeys(u, f) == IF Unauthenticated(u) THEN {} ELSE ObservedKeys(u, f)

\* An observer makes its query exist.
Observe(c, keys) ==
    [k \in (DOMAIN c) \cup keys |-> IF k \in DOMAIN c THEN c[k] ELSE NewQuery]

\* queryClient.getQueryData(key)
GetQueryData(c, key) == IF key \in DOMAIN c THEN c[key].data ELSE NoData

\* queryClient.setQueryData(key, data): the query is made if there is none,
\* and is no longer invalidated; a fetch under way goes on.
SetQueryData(c, key, data) ==
    [k \in (DOMAIN c) \cup {key} |->
        IF k # key THEN c[k]
        ELSE IF k \in DOMAIN c
             THEN [c[k] EXCEPT !.data = data, !.isInvalidated = FALSE]
             ELSE [NewQuery EXCEPT !.data = data]]

\* queryClient.cancelQueries({ queryKey: [prefix] }): the result of a fetch
\* under way is dropped.
CancelQueries(c, prefix) ==
    [k \in DOMAIN c |-> IF k[1] = prefix THEN [c[k] EXCEPT !.fetch = FetchIdle] ELSE c[k]]

\* queryClient.invalidateQueries({ queryKey: [prefix] }): every query under
\* the prefix is stale, and the active ones are fetched anew (a fetch under
\* way is cancelled for the new one).
InvalidateQueries(c, prefix, active) ==
    [k \in DOMAIN c |->
        IF k[1] # prefix THEN c[k]
        ELSE IF k \in active
             THEN [c[k] EXCEPT !.isInvalidated = TRUE, !.fetch = FetchSent]
             ELSE [c[k] EXCEPT !.isInvalidated = TRUE]]

\* A mounting observer fetches its query unless a fetch is under way.
FetchOnMount(c, keys) ==
    [k \in DOMAIN c |->
        IF k \in keys /\ c[k].fetch.st = "idle"
        THEN [c[k] EXCEPT !.fetch = FetchSent] ELSE c[k]]

\* What the remote store answers to the query function of key k.
QueryFn(k, rows) ==
    IF k[1] = "game-logs" THEN SelectGameLogs(rows, k[2])
    ELSE SelectLoggedGames(rows, k[2], k[3])

----------------------------------------------------------------------------
(* Mutations: one slot per mutation that is under way.                     *)

NoContext == [previousGameLogs |-> NoData, previousLoggedGames |-> NoData]

IdleMutation ==
    [kind |-> "none", pc |-> "idle", user |-> NoUser, id |-> EmptyId,
     input |-> BlankLog, payload |-> BlankLog, at |-> 0, context |-> NoContext,
     error |-> ""]

\* The slots of this run.
Slots == DOMAIN mutations
\* A new mutation takes the first free slot.
FreeSlot(m) == mutations[m].pc = "idle" /\ \A n \in Slots : n < m => mutations[n].pc # "idle"
\* The ids the table has given so far.
Ids == 1 .. (nextId - 1)

SetMutation(m, r) == mutations' = [mutations EXCEPT ![m] = r]

\* A mutation whose next handler follows with no event in between: the
\* mutation awaits onMutate, then calls mutationFn; a throw of mutationFn or a
\* failed call goes to onError and on to onSettled.
Continuing(m) == mutations[m].pc \in {"mutating", "error", "rolledback"}

\* The event loop takes up a new event only when no handler is left to run.
Quiet == \A m \in Slots : ~Continuing(m)

----------------------------------------------------------------------------
(* Reads.                                                                  *)

\* useGameLogs' query function run on demand (refetch): without a user it
\* returns [] at once and calls nothing.
RefetchGameLogs ==
    /\ Quiet
    /\ GameLogsKey(session) \in DOMAIN cache
    /\ cache' = IF Unauthenticated(session)
                THEN [cache EXCEPT ![GameLogsKey(session)] =
                        [data |-> Data(<<>>), fetch |-> FetchIdle, isInvalidated |-> FALSE]]
                ELSE [cache EXCEPT ![GameLogsKey(session)].fetch = FetchSent]
    /\ UNCHANGED <<vInput, vOutput, session, filters, store, nextId, clock, mutations>>

\* The remote store evaluates the select of a fetch under way.
RemoteSelect(k) ==
    /\ Quiet
    /\ k \in DOMAIN cache
    /\ cache[k].fetch.st = "sent"
    /\ cache' = [cache EXCEPT ![k].fetch = FetchReplied(QueryFn(k, store))]
    /\ UNCHANGED <<vInput, vOutput, session, filters, store, nextId, clock, mutations>>

\* The answer arrives and becomes the query's data.
FetchSuccess(k) ==
    /\ Quiet
    /\ k \in DOMAIN cache
    /\ cache[k].fetch.st = "replied"
    /\ cache' = [cache EXCEPT ![k] =
                    [data |-> Data(cache[k].fetch.rows), fetch |-> FetchIdle,
                     isInvalidated |-> FALSE]]
    /\ UNCHANGED <<vInput, vOutput, session, filters, store, nextId, clock, mutations>>

\* if (error) throw error: the fetch fails and the data stays.
FetchError(k) ==
    /\ Quiet
    /\ k \in DOMAIN cache
    /\ cache[k].fetch.st = "sent"
    /\ cache' = [cache EXCEPT ![k].fetch = FetchIdle]
    /\ UNCHANGED <<vInput, vOutput, session, filters, store, nextId, clock, mutations>>

----------------------------------------------------------------------------
(* useDeleteGameLog                                                        *)

\* old ? old.filter(log => log.id !== gameLogId) : []
RemoveGameLog(old, gameLogId) ==
    Data(IF old.has THEN SelectSeq(old.rows, LAMBDA log : log.id # gameLogId) ELSE <<>>)

\* Mutant: the filter keeps the deleted game and drops the others.
RemoveLoggedGameInverted(old, gameLogId) ==
    Data(IF old.has THEN SelectSeq(old.rows, LAMBDA game : game.logData.id = gameLogId)
         ELSE <<>>)

\* old ? old.filter(game => game.logData?.id !== gameLogId) : []
RemoveLoggedGame(old, gameLogId) ==
    Data(IF old.has THEN SelectSeq(old.rows, LAMBDA game : game.logData.id # gameLogId)
         ELSE <<>>)

\* Mutant: the logged-games reads are left to run.
CancelGameLogsOnly(c) == CancelQueries(c, "game-logs")

\* The queries cancelQueries leaves: both prefixes cancelled.
CancelBoth(c) == CancelQueries(CancelQueries(c, "game-logs"), "logged-games")

\* getQueryCache().findAll({ queryKey: ['logged-games'] }).forEach(setQueryData ...)
PatchLoggedGames(c, gameLogId) ==
    [k \in DOMAIN c |->
        IF k[1] = "logged-games"
        THEN [c[k] EXCEPT !.data = RemoveLoggedGame(c[k].data, gameLogId),
                          !.isInvalidated = FALSE]
        ELSE c[k]]

\* The snapshot onMutate returns as the mutation's context.
Snapshot(c, u) ==
    [previousGameLogs |-> GetQueryData(c, GameLogsKey(u)),
     previousLoggedGames |-> GetQueryData(c, LoggedGamesUserKey(u))]

\* The cache after onMutate(gameLogId) of user u.
OnMutateCache(c, u, gameLogId) ==
    LET cancelled == CancelBoth(c)
        patched == SetQueryData(cancelled, GameLogsKey(u),
                        RemoveGameLog(GetQueryData(cancelled, GameLogsKey(u)), gameLogId))
    IN  PatchLoggedGames(patched, gameLogId)

\* The keys onMutate of user u writes, and what they hold.
Patched(c, u) ==
    LET keys == {GameLogsKey(u)} \cup {k \in DOMAIN c : k[1] = "logged-games"}
    IN  [k \in keys |-> GetQueryData(c, k)]

\* mutate(gameLogId): onMutate cancels, snapshots and patches.
DeleteOnMutate(m, gameLogId) ==
    /\ Quiet
    /\ FreeSlot(m)
    /\ cache' = OnMutateCache(cache, session, gameLogId)
    /\ SetMutation(m, [IdleMutation EXCEPT
            !.kind = "delete", !.pc = "mutating", !.user = session, !.id = gameLogId,
            !.context = Snapshot(CancelBoth(cache), session)])
    /\ UNCHANGED <<vInput, vOutput, session, filters, store, nextId, clock>>

\* mutationFn up to the remote call: it throws without a user or an id.
DeleteMutationFn(m) ==
    /\ mutations[m].kind = "delete"
    /\ mutations[m].pc = "mutating"
    /\ SetMutation(m,
            IF Unauthenticated(mutations[m].user)
            THEN [mutations[m] EXCEPT !.pc = "error", !.error = "auth"]
            ELSE IF mutations[m].id = EmptyId
            THEN [mutations[m] EXCEPT !.pc = "error", !.error = "id"]
            ELSE [mutations[m] EXCEPT !.pc = "inflight"])
    /\ UNCHANGED <<vInput, vOutput, session, filters, store, nextId, clock, cache>>

\* The remote store deletes the rows of the filter (none is no error).
RemoteDelete(m) ==
    /\ Quiet
    /\ mutations[m].kind = "delete"
    /\ mutations[m].pc = "inflight"
    /\ store' = DeleteRows(store, mutations[m].id, mutations[m].user)
    /\ SetMutation(m, [mutations[m] EXCEPT !.pc = "success"])
    /\ UNCHANGED <<vInput, vOutput, session, filters, nextId, clock, cache>>

\* The remote call of a mutation fails: if (error) throw error.
RemoteError(m) ==
    /\ Quiet
    /\ mutations[m].pc = "inflight"
    /\ SetMutation(m, [mutations[m] EXCEPT !.pc = "error", !.error = "remote"])
    /\ UNCHANGED <<vInput, vOutput, session, filters, store, nextId, clock, cache>>

\* The cache after onError of a delete of user u with context ctx.
OnErrorCache(c, u, ctx) ==
    LET first == IF ctx.previousGameLogs.has
                 THEN SetQueryData(c, GameLogsKey(u), ctx.previousGameLogs)
                 ELSE c
    IN  IF ctx.previousLoggedGames.has
        THEN SetQueryData(first, LoggedGamesUserKey(u), ctx.previousLoggedGames)
        ELSE first

DeleteOnError(m) ==
    /\ mutations[m].kind = "delete"
    /\ mutations[m].pc = "error"
    /\ cache' = OnErrorCache(cache, mutations[m].user, mutations[m].context)
    /\ SetMutation(m, [mutations[m] EXCEPT !.pc = "rolledback"])
    /\ UNCHANGED <<vInput, vOutput, session, filters, store, nextId, clock>>

\* Mutant: the logged games are not invalidated.
OnSettledGameLogsOnly(c, active) == InvalidateQueries(c, "game-logs", active)

\* Mutant: the entry list is not invalidated.
OnSettledLoggedGamesOnly(c, active) == InvalidateQueries(c, "logged-games", active)

\* The cache after onSettled.
OnSettledCache(c, active) ==
    InvalidateQueries(InvalidateQueries(c, "game-logs", active), "logged-games", active)

DeleteOnSettled(m) ==
    /\ mutations[m].kind = "delete"
    /\ mutations[m].pc \in {"success", "rolledback"}
    /\ Quiet \/ Continuing(m)
    /\ cache' = OnSettledCache(cache, ActiveKeys(session, filters))
    /\ SetMutation(m, IdleMutation)
    /\ UNCHANGED <<vInput, vOutput, session, filters, store, nextId, clock>>

----------------------------------------------------------------------------
(* useAddGameLog                                                           *)

\* Adds whose insert the remote store has yet to carry out.
InsertsUnderWay ==
    Cardinality({m \in Slots : mutations[m].kind = "add" /\ mutations[m].pc = "inflight"})

\* Mutant: a user_id the caller supplied is kept.
InsertPayloadCallerWins(validatedGameLog, u) ==
    IF validatedGameLog.user_id.k = "string" THEN validatedGameLog
    ELSE [validatedGameLog EXCEPT !.user_id = JsStr(u)]

\* { ...validatedGameLog, user_id: user.id }
InsertPayload(validatedGameLog, u) == [validatedGameLog EXCEPT !.user_id = JsStr(u)]

\* mutate(gameLog): mutationFn up to the remote call.
AddMutationFn(m, gameLog) ==
    LET validated == validateGameLogInput(gameLog)
        started == [IdleMutation EXCEPT !.kind = "add", !.user = session,
                                        !.input = gameLog]
    IN  /\ Quiet
        /\ FreeSlot(m)
        /\ \/ Unauthenticated(session)
           \/ ~validated.ok
           \/ nextId + InsertsUnderWay <= MaxRows
        /\ SetMutation(m,
                IF Unauthenticated(session)
                THEN [started EXCEPT !.pc = "error", !.error = "auth"]
                ELSE IF ~validated.ok
                THEN [started EXCEPT !.pc = "error", !.error = "validation"]
                ELSE [started EXCEPT !.pc = "inflight", !.payload = validated.value])
        /\ UNCHANGED <<vInput, vOutput, session, filters, store, nextId, clock, cache>>

\* The remote store inserts the row.
RemoteInsert(m) ==
    /\ Quiet
    /\ mutations[m].kind = "add"
    /\ mutations[m].pc = "inflight"
    /\ store' = Append(store,
            InsertRow(InsertPayload(mutations[m].payload, mutations[m].user), nextId, clock))
    /\ nextId' = nextId + 1
    /\ clock' = clock + 1
    /\ SetMutation(m, [mutations[m] EXCEPT !.pc = "success", !.id = nextId])
    /\ UNCHANGED <<vInput, vOutput, session, filters, cache>>

\* onSuccess of add and of update: invalidateQueries({ queryKey: ['game-logs'] })
OnSuccessCache(c, active) == InvalidateQueries(c, "game-logs", active)

AddOnSuccess(m) ==
    /\ Quiet
    /\ mutations[m].kind = "add"
    /\ mutations[m].pc = "success"
    /\ cache' = OnSuccessCache(cache, ActiveKeys(session, filters))
    /\ SetMutation(m, IdleMutation)
    /\ UNCHANGED <<vInput, vOutput, session, filters, store, nextId, clock>>

\* A failed add or update has no handler: the error goes to the caller.
MutationFailed(m) ==
    /\ mutations[m].kind \in {"add", "update"}
    /\ mutations[m].pc = "error"
    /\ SetMutation(m, IdleMutation)
    /\ UNCHANGED <<vInput, vOutput, session, filters, store, nextId, clock, cache>>

----------------------------------------------------------------------------
(* useUpdateGameLog                                                        *)

\* validateGameLogInput({ ...gameLog, game_id: 'temp' })
UpdateValidated(gameLog) == validateGameLogInput([gameLog EXCEPT !.game_id = JsStr("temp")])

\* The fields update() sends.
UpdateFields(validatedGameLog, now) ==
    [mode |-> validatedGameLog.mode,
     company |-> validatedGameLog.company,
     rating |-> validatedGameLog.rating,
     rooted_for |-> validatedGameLog.rooted_for,
     notes |-> validatedGameLog.notes,
     updated_at |-> now]

\* mutate(gameLog): mutationFn up to the remote call; new Date() is read here.
UpdateMutationFn(m, gameLogId, gameLog) ==
    LET validated == UpdateValidated(gameLog)
        started == [IdleMutation EXCEPT !.kind = "update", !.user = session,
                                        !.id = gameLogId, !.input = gameLog]
        sends == ~Unauthenticated(session) /\ gameLogId # EmptyId /\ validated.ok
    IN  /\ Quiet
        /\ FreeSlot(m)
        /\ sends => clock < MaxClock
        /\ SetMutation(m,
                IF Unauthenticated(session)
                THEN [started EXCEPT !.pc = "error", !.error = "auth"]
                ELSE IF gameLogId = EmptyId
                THEN [started EXCEPT !.pc = "error", !.error = "id"]
                ELSE IF ~validated.ok
                THEN [started EXCEPT !.pc = "error", !.error = "validation"]
                ELSE [started EXCEPT !.pc = "inflight", !.payload = validated.value,
                                     !.at = clock])
        /\ clock' = IF sends THEN clock + 1 ELSE clock
        /\ UNCHANGED <<vInput, vOutput, session, filters, store, nextId, cache>>

\* The remote store updates the row of the filter; .single() with no row is
\* an error.
RemoteUpdate(m) ==
    LET hit == \E i \in DOMAIN store : Matches(store[i], mutations[m].id, mutations[m].user)
    IN  /\ Quiet
        /\ mutations[m].kind = "update"
        /\ mutations[m].pc = "inflight"
        /\ store' = UpdateRows(store, mutations[m].id, mutations[m].user,
                               UpdateFields(mutations[m].payload, mutations[m].at))
        /\ SetMutation(m,
                IF hit THEN [mutations[m] EXCEPT !.pc = "success"]
                ELSE [mutations[m] EXCEPT !.pc = "error", !.error = "no row"])
        /\ UNCHANGED <<vInput, vOutput, session, filters, nextId, clock, cache>>

UpdateOnSuccess(m) ==
    /\ Quiet
    /\ mutations[m].kind = "update"
    /\ mutations[m].pc = "success"
    /\ cache' = OnSuccessCache(cache, ActiveKeys(session, filters))
    /\ SetMutation(m, IdleMutation)
    /\ UNCHANGED <<vInput, vOutput, session, filters, store, nextId, clock>>

----------------------------------------------------------------------------
(* WelcomeModal                                                            *)

\* localStorage.getItem of an item that is not there
JsNullStr == [k |-> "null", s |-> ""]

\* No tab has the component mounted; the item of localStorage is flag.
NotMounted(flag) ==
    [hasSeenWelcome |-> flag,
     tabs |-> [t \in 1 .. MaxTabs |-> "unmounted"],
     mounts |-> 0,
     opened |-> 0]

\* The component is mounted in tab t: useState(false), the effect is yet to run.
WelcomeMount(t) ==
    /\ welcome.tabs[t] = "unmounted"
    /\ welcome.mounts < MaxMounts
    /\ welcome' = [welcome EXCEPT !.tabs[t] = "rendered", !.mounts = @ + 1]
    /\ UNCHANGED <<vInput, vOutput, crudVars>>

\* useEffect(..., []): if (!hasSeenWelcome) setIsOpen(true)
WelcomeEffect(t) ==
    /\ welcome.tabs[t] = "rendered"
    /\ welcome' = IF FalsyStr(welcome.hasSeenWelcome)
                  THEN [welcome EXCEPT !.tabs[t] = "open", !.opened = @ + 1]
                  ELSE [welcome EXCEPT !.tabs[t] = "closed"]
    /\ UNCHANGED <<vInput, vOutput, crudVars>>

\* handleClose, from the dialog's onOpenChange or the button's onClick
handleClose(t) ==
    /\ welcome.tabs[t] = "open"
    /\ welcome' = [welcome EXCEPT !.hasSeenWelcome = JsStr("true"), !.tabs[t] = "closed"]
    /\ UNCHANGED <<vInput, vOutput, crudVars>>

\* The tab is reloaded or leaves the page: the component is unmounted.
WelcomeUnmount(t) ==
    /\ welcome.tabs[t] # "unmounted"
    /\ welcome' = [welcome EXCEPT !.tabs[t] = "unmounted"]
    /\ UNCHANGED <<vInput, vOutput, crudVars>>

\* The hooks leave the WelcomeModal alone.
NoWelcome == UNCHANGED welcome

InitWelcome ==
    /\ vInput = BlankLog
    /\ vOutput = NotValidated
    /\ session = NoUser
    /\ filters = ""
    /\ store = <<>>
    /\ nextId = 1
    /\ clock = 0
    /\ cache = <<>>
    /\ mutations = <<IdleMutation>>
    /\ held = <<>>
    /\ welcome \in {NotMounted(JsNullStr), NotMounted(JsStr("true"))}

NextWelcome ==
    \/ \E t \in 1 .. MaxTabs : WelcomeMount(t)
    \/ \E t \in 1 .. MaxTabs : WelcomeEffect(t)
    \/ \E t \in 1 .. MaxTabs : handleClose(t)
    \/ \E t \in 1 .. MaxTabs : WelcomeUnmount(t)

SpecWelcome == InitWelcome /\ [][NextWelcome]_vars

----------------------------------------------------------------------------
(* The validator on its own.                                               *)

InitValidate ==
    /\ vInput \in ValidatorInputs
    /\ vOutput = NotValidated
    /\ session = ""
    /\ filters = ""
    /\ store = <<>>
    /\ nextId = 1
    /\ clock = 0
    /\ cache = <<>>
    /\ mutations = [m \in 1 .. MaxMutations |-> IdleMutation]
    /\ held = <<>>
    /\ welcome = NotMounted(JsNullStr)

Validate ==
    /\ ~vOutput.done
    /\ vOutput' = [done |-> TRUE] @@ validateGameLogInput(vInput)
    /\ UNCHANGED <<vInput, crudVars, welcome>>

NextValidate == Validate

SpecValidate == InitValidate /\ [][NextValidate]_vars

----------------------------------------------------------------------------
(* The optimistic delete protocol, with the reads and updates around it.   *)

\* The log a user made of game g, as the table holds it.
StoredLog(id, u, g, mode, now) ==
    InsertRow(InsertPayload(
        sanitizedGameLog([BlankLog EXCEPT !.game_id = JsStr(g), !.mode = JsStr(mode)]), u),
        id, now)

\* The diary of u1 when the run starts: one game attended, one watched.
DiaryOfU1 == <<StoredLog(1, "u1", "G1", "attended", 0), StoredLog(2, "u1", "G2", "watched", 0)>>

\* The Timeline has just been mounted: both queries are being fetched.
JustMounted(u, f) == FetchOnMount(Observe(<<>>, ObservedKeys(u, f)), ActiveKeys(u, f))

\* The query of key k as a fetch of rows leaves it.
Fetched(k, rows) == [NewQuery EXCEPT !.data = Data(QueryFn(k, rows))]

\* The user has looked at the diary under every mode filter and is back at f:
\* every query holds what the store holds.
Visited(u, f, rows) ==
    LET keys == {GameLogsKey(u)} \cup {LoggedGamesKey(u, g) : g \in ModeFilters}
    IN  [k \in keys |-> Fetched(k, rows)]

Init ==
    /\ vInput = BlankLog
    /\ vOutput = NotValidated
    /\ session = "u1"
    /\ filters = ""
    /\ store = DiaryOfU1
    /\ nextId = Len(DiaryOfU1) + 1
    /\ clock = 1
    /\ cache \in {JustMounted("u1", ""), Visited("u1", "", DiaryOfU1)}
    /\ mutations = [m \in 1 .. MaxMutations |-> IdleMutation]
    /\ held = <<>>
    /\ welcome = NotMounted(JsNullStr)

\* Specifications that keep no history leave held alone.
NoHistory == UNCHANGED held

\* Those that keep it record, as a delete starts, what the queries it patches
\* hold, and forget it as the mutation ends.
History ==
    held' = [m \in DOMAIN mutations |->
                IF mutations[m].pc = "idle" /\ mutations'[m].kind = "delete"
                THEN Patched(cache, mutations'[m].user)
                ELSE IF mutations'[m].pc = "idle" THEN <<>>
                ELSE held[m]]

Next ==
    \/ \E k \in DOMAIN cache : RemoteSelect(k) /\ NoHistory /\ NoWelcome
    \/ \E k \in DOMAIN cache : FetchSuccess(k) /\ NoHistory /\ NoWelcome
    \/ \E k \in DOMAIN cache : FetchError(k) /\ NoHistory /\ NoWelcome
    \/ \E m \in Slots, id \in Ids : DeleteOnMutate(m, id) /\ NoHistory /\ NoWelcome
    \/ \E m \in Slots : DeleteMutationFn(m) /\ NoHistory /\ NoWelcome
    \/ \E m \in Slots : RemoteDelete(m) /\ NoHistory /\ NoWelcome
    \/ \E m \in Slots : RemoteError(m) /\ NoHistory /\ NoWelcome
    \/ \E m \in Slots : DeleteOnError(m) /\ NoHistory /\ NoWelcome
    \/ \E m \in Slots : DeleteOnSettled(m) /\ NoHistory /\ NoWelcome

Spec == Init /\ [][Next]_vars

----------------------------------------------------------------------------
(* The same protocol, with the history of what each delete found.          *)

InitRollback ==
    /\ vInput = BlankLog
    /\ vOutput = NotValidated
    /\ session = "u1"
    /\ filters = ""
    /\ store = DiaryOfU1
    /\ nextId = Len(DiaryOfU1) + 1
    /\ clock = 1
    /\ cache \in {JustMounted("u1", ""), Visited("u1", "", DiaryOfU1)}
    /\ mutations = [m \in 1 .. MaxMutations |-> IdleMutation]
    /\ held = [m \in 1 .. MaxMutations |-> <<>>]
    /\ welcome = NotMounted(JsNullStr)

NextRollback ==
    \/ \E k \in DOMAIN cache : RemoteSelect(k) /\ History /\ NoWelcome
    \/ \E k \in DOMAIN cache : FetchSuccess(k) /\ History /\ NoWelcome
    \/ \E k \in DOMAIN cache : FetchError(k) /\ History /\ NoWelcome
    \/ \E m \in Slots, id \in Ids : DeleteOnMutate(m, id) /\ History /\ NoWelcome
    \/ \E m \in Slots : DeleteMutationFn(m) /\ History /\ NoWelcome
    \/ \E m \in Slots : RemoteDelete(m) /\ History /\ NoWelcome
    \/ \E m \in Slots : RemoteError(m) /\ History /\ NoWelcome
    \/ \E m \in Slots : DeleteOnError(m) /\ History /\ NoWelcome
    \/ \E m \in Slots : DeleteOnSettled(m) /\ History /\ NoWelcome

SpecRollback == InitRollback /\ [][NextRollback]_vars

----------------------------------------------------------------------------
(* The protocol with its scheduling, with or without a session, and with    *)
(* deletes of the empty id.                                                *)

InitLive ==
    /\ vInput = BlankLog
    /\ vOutput = NotValidated
    /\ session \in {"u1", NoUser}
    /\ filters = ""
    /\ store = DiaryOfU1
    /\ nextId = Len(DiaryOfU1) + 1
    /\ clock = 1
    /\ cache \in {JustMounted(session, "")}
                \cup (IF session = NoUser THEN {} ELSE {Visited(session, "", store)})
    /\ mutations = [m \in 1 .. MaxMutations |-> IdleMutation]
    /\ held = <<>>
    /\ welcome = NotMounted(JsNullStr)

NextLive ==
    \/ \E k \in DOMAIN cache : RemoteSelect(k) /\ NoHistory /\ NoWelcome
    \/ \E k \in DOMAIN cache : FetchSuccess(k) /\ NoHistory /\ NoWelcome
    \/ \E m \in Slots, id \in Ids \cup {EmptyId} : DeleteOnMutate(m, id) /\ NoHistory /\ NoWelcome
    \/ \E m \in Slots : DeleteMutationFn(m) /\ NoHistory /\ NoWelcome
    \/ \E m \in Slots : RemoteDelete(m) /\ NoHistory /\ NoWelcome
    \/ \E m \in Slots : RemoteError(m) /\ NoHistory /\ NoWelcome
    \/ \E m \in Slots : DeleteOnError(m) /\ NoHistory /\ NoWelcome
    \/ \E m \in Slots : DeleteOnSettled(m) /\ NoHistory /\ NoWelcome

\* A handler that follows another with no event in between runs as soon as it
\* can; the remote call is answered or fails in the end, and the event loop
\* comes to every event that waits, though handlers of other mutations run
\* in between.
FairLive ==
    \A m \in 1 .. MaxMutations :
        /\ WF_vars(DeleteMutationFn(m) /\ NoHistory /\ NoWelcome)
        /\ WF_vars(DeleteOnError(m) /\ NoHistory /\ NoWelcome)
        /\ SF_vars((RemoteDelete(m) \/ RemoteError(m)) /\ NoHistory /\ NoWelcome)
        /\ SF_vars(DeleteOnSettled(m) /\ NoHistory /\ NoWelcome)

SpecLive == InitLive /\ [][NextLive]_vars /\ FairLive

----------------------------------------------------------------------------
(* The four operations, one mutation at a time, with and without a session. *)

\* "  Alex  "
Alex == JsText(<<[ws |-> TRUE, n |-> 2], [ws |-> FALSE, n |-> 4], [ws |-> TRUE, n |-> 2]>>)

\* The game logs handed to the add hook: two the validator takes, one of them
\* carrying a user_id of its own, and some it does not take.
AddInputs ==
    {BlankLog,
     [BlankLog EXCEPT !.user_id = JsStr("u2"), !.rating = JsNum(5), !.company = Alex]}
    \cup {[BlankLog EXCEPT !.rating = r] : r \in {JsNum(0), JsNum(6), JsHalves(5)}}
    \cup {[BlankLog EXCEPT !.mode = x] : x \in {JsUndefinedStr, JsStr("played")}}
    \cup {[BlankLog EXCEPT !.game_id = x] : x \in {JsUndefinedStr, JsStr("")}}

\* The game logs handed to the update hook: they carry no game_id.
UpdateInputs ==
    {[BlankLog EXCEPT !.game_id = JsUndefinedStr, !.mode = JsStr("watched"),
                      !.rating = JsNum(3), !.notes = Alex]}
    \cup {[BlankLog EXCEPT !.game_id = JsUndefinedStr, !.rating = r] :
            r \in {JsNum(6), JsHalves(3)}}
    \cup {[BlankLog EXCEPT !.game_id = JsUndefinedStr, !.mode = x] :
            x \in {JsUndefinedStr, JsStr("played")}}

\* The table holds a log of u2 when the run starts.
DiaryOfU2 == <<StoredLog(1, "u2", "G1", "watched", 0)>>

InitCrud ==
    /\ vInput = BlankLog
    /\ vOutput = NotValidated
    /\ session \in {NoUser, "u1"}
    /\ filters = ""
    /\ store = DiaryOfU2
    /\ nextId = Len(DiaryOfU2) + 1
    /\ clock = 1
    /\ cache = JustMounted(session, "")
    /\ mutations = <<IdleMutation>>
    /\ held = <<>>
    /\ welcome = NotMounted(JsNullStr)

NextCrud ==
    \/ RefetchGameLogs /\ NoHistory /\ NoWelcome
    \/ \E k \in DOMAIN cache : RemoteSelect(k) /\ NoHistory /\ NoWelcome
    \/ \E k \in DOMAIN cache : FetchSuccess(k) /\ NoHistory /\ NoWelcome
    \/ \E k \in DOMAIN cache : FetchError(k) /\ NoHistory /\ NoWelcome
    \/ \E m \in Slots, gameLog \in AddInputs : AddMutationFn(m, gameLog) /\ NoHistory /\ NoWelcome
    \/ \E m \in Slots : RemoteInsert(m) /\ NoHistory /\ NoWelcome
    \/ \E m \in Slots : AddOnSuccess(m) /\ NoHistory /\ NoWelcome
    \/ \E m \in Slots, id \in Ids \cup {EmptyId}, gameLog \in UpdateInputs :
            UpdateMutationFn(m, id, gameLog) /\ NoHistory /\ NoWelcome
    \/ \E m \in Slots : RemoteUpdate(m) /\ NoHistory /\ NoWelcome
    \/ \E m \in Slots : UpdateOnSuccess(m) /\ NoHistory /\ NoWelcome
    \/ \E m \in Slots : MutationFailed(m) /\ NoHistory /\ NoWelcome
    \/ \E m \in Slots, id \in Ids \cup {EmptyId} : DeleteOnMutate(m, id) /\ NoHistory /\ NoWelcome
    \/ \E m \in Slots : DeleteMutationFn(m) /\ NoHistory /\ NoWelcome
    \/ \E m \in Slots : RemoteDelete(m) /\ NoHistory /\ NoWelcome
    \/ \E m \in Slots : RemoteError(m) /\ NoHistory /\ NoWelcome
    \/ \E m \in Slots : DeleteOnError(m) /\ NoHistory /\ NoWelcome
    \/ \E m \in Slots : DeleteOnSettled(m) /\ NoHistory /\ NoWelcome

SpecCrud == InitCrud /\ [][NextCrud]_vars

----------------------------------------------------------------------------
(* The claims.                                                             *)

\* new is old without the elements that are E, the others in their order.
OrderedRemoval(old, new, IsE(_)) ==
    LET kept == {i \in DOMAIN old : ~IsE(old[i])}
    IN  /\ Len(new) = Cardinality(kept)
        /\ \A i \in kept : new[Cardinality({j \in kept : j <= i})] = old[i]

HasLog(rows, id) == \E i \in DOMAIN rows : rows[i].id = id
HasLoggedGame(rows, id) == \E i \in DOMAIN rows : rows[i].logData.id = id

C2_RollbackRestoresAll ==
    \A m \in DOMAIN mutations :
        (mutations[m].kind = "delete" /\ mutations[m].pc = "rolledback") =>
            \A k \in DOMAIN held[m] : GetQueryData(cache, k) = held[m][k]

\* Nothing of this client is under way on the entry list of the current user:
\* every mutation has settled and the refetch of the list has brought its data.
Quiescent ==
    /\ \A m \in DOMAIN mutations : mutations[m].pc = "idle"
    /\ GameLogsKey(session) \in DOMAIN cache
    /\ cache[GameLogsKey(session)].fetch.st = "idle"
    /\ ~cache[GameLogsKey(session)].isInvalidated
    /\ cache[GameLogsKey(session)].data.has

\* C4: whenever every mutation has settled and the refetch of the entry list
\* has completed, the cached entry list is the current user's rows of the
\* remote store, newest first.
C4_ListMatchesStore ==
    Quiescent => cache[GameLogsKey(session)].data.rows = SelectGameLogs(store, session)

\* Deletes have gone through, all is settled and refetched.
C4_Witness == Quiescent /\ Len(store) < Len(DiaryOfU1)

\* C5: when onMutate has patched the cache (and mutationFn is yet to run), no
\* read of the entry list or of a logged-games query is under way any more, so
\* none that was can write after the patch; and no patched query holds the
\* deleted entry.
C5_NoReadSurvivesPatch ==
    \A m \in DOMAIN mutations :
        (mutations[m].kind = "delete" /\ mutations[m].pc = "mutating") =>
            \A k \in DOMAIN cache :
                /\ k[1] \in {"game-logs", "logged-games"} => cache[k].fetch.st = "idle"
                /\ k = GameLogsKey(mutations[m].user) =>
                        ~HasLog(cache[k].data.rows, mutations[m].id)
                /\ k[1] = "logged-games" =>
                        ~HasLoggedGame(cache[k].data.rows, mutations[m].id)

\* A delete started while the first reads of the mounted view were under way:
\* they were cancelled, and the queries hold the empty list of the patch.
C5_Witness ==
    \E m \in DOMAIN mutations :
        /\ mutations[m].kind = "delete"
        /\ mutations[m].pc = "mutating"
        /\ ~mutations[m].context.previousGameLogs.has
        /\ \A k \in DOMAIN cache : cache[k].fetch.st = "idle" /\ cache[k].data = Data(<<>>)
        /\ store = DiaryOfU1

TextFields == {"company", "notes", "rooted_for"}
CapOf(field) ==
    IF field = "company" THEN CompanyCap
    ELSE IF field = "notes" THEN NotesCap ELSE RootedForCap

\* The validator took its input, and the free text of field is longer than the cap.
OverCap(field) ==
    /\ vOutput.done
    /\ vOutput.ok
    /\ vInput[field].k = "string"
    /\ StrLen(vInput[field].runs) > CapOf(field)

\* C8 as the spec states it: of a text longer than its cap, the normalized
\* value is exactly as long as the cap and neither starts nor ends in whitespace.
C8_ExactCapNoWhitespace ==
    \A field \in TextFields :
        OverCap(field) =>
            /\ vOutput.value[field].k = "string"
            /\ StrLen(vOutput.value[field].runs) = CapOf(field)
            /\ ~StartsWithWs(vOutput.value[field].runs)
            /\ ~EndsWithWs(vOutput.value[field].runs)

\* C8 as the code has it: of a text longer than its cap, the normalized value
\* is null or no longer than the cap, and does not start in whitespace; it is
\* exactly as long as the cap when the text is longer than the cap without the
\* whitespace around it too, and then it may end in whitespace.
C8_TrimmedThenCut ==
    \A field \in TextFields :
        OverCap(field) =>
            LET out == vOutput.value[field]
                text == vInput[field].runs
            IN  /\ out.k \in {"null", "string"}
                /\ out.k = "null" <=> \A i \in DOMAIN text : text[i].ws
                /\ StrLen(out.runs) <= CapOf(field)
                /\ ~StartsWithWs(out.runs)
                /\ StrLen(Trim(text)) > CapOf(field) => StrLen(out.runs) = CapOf(field)
                /\ StrLen(Trim(text)) <= CapOf(field) => ~EndsWithWs(out.runs)

\* A text longer than its cap is cut after a space: as long as the cap, ending
\* in whitespace.
C8_Witness ==
    \E field \in TextFields :
        /\ OverCap(field)
        /\ StrLen(vOutput.value[field].runs) = CapOf(field)
        /\ EndsWithWs(vOutput.value[field].runs)

\* The step onSettled of the delete in slot m: the mutation is over.
Settles(m) == mutations[m].kind = "delete" /\ mutations'[m].pc = "idle"

\* C3: a delete that was started is settled in the end, whether the remote
\* delete went through, failed, or was never called for want of a session or
\* of an id; the step that settles it leaves the entry lists and every
\* logged-games query of the cache invalidated, and a delete that failed is
\* settled only after its rollback has run.
C3_SettledAndInvalidated ==
    /\ \A m \in 1 .. MaxMutations :
          (mutations[m].kind = "delete") ~> (mutations[m].pc = "idle")
    /\ [][\A m \in DOMAIN mutations :
            Settles(m) =>
                /\ mutations[m].pc \in {"success", "rolledback"}
                /\ mutations[m].error # "" => mutations[m].pc = "rolledback"
                /\ \A k \in DOMAIN cache' :
                      k[1] \in {"game-logs", "logged-games"} => cache'[k].isInvalidated]_vars

\* A delete that failed has been settled: the row is still in the store, and
\* the query of the filter that is not shown, which the rollback did not
\* restore, is invalidated.
C3_Witness ==
    /\ \A m \in DOMAIN mutations : mutations[m].pc = "idle"
    /\ store = DiaryOfU1
    /\ LoggedGamesKey("u1", "attended") \in DOMAIN cache
    /\ cache[LoggedGamesKey("u1", "attended")].isInvalidated
    /\ cache[LoggedGamesKey("u1", "attended")].data = Data(<<>>)

\* The rows of others than u, in their order.
RowsOfOthers(rows, u) == SelectSeq(rows, LAMBDA r : r.user_id # u)

\* C6: a row keeps its user_id for as long as it is in the store; the row an
\* add puts there bears the session's user (whatever user_id the caller gave),
\* and the remote call of an add, an update or a delete leaves the rows of
\* every other user as they are.
C6_OwnedBySession ==
    [][/\ \A i \in DOMAIN store, j \in DOMAIN store' :
            store[i].id = store'[j].id => store[i].user_id = store'[j].user_id
       /\ \A m \in DOMAIN mutations :
            (mutations[m].pc = "inflight" /\ mutations'[m].pc # "inflight") =>
                /\ RowsOfOthers(store', mutations[m].user)
                        = RowsOfOthers(store, mutations[m].user)
                /\ (mutations[m].kind = "add" /\ mutations'[m].pc = "success") =>
                        /\ Len(store') = Len(store) + 1
                        /\ store'[Len(store')].user_id = mutations[m].user]_vars

\* u1 added a log with the user_id of u2 in the input, and then tried to
\* update the log of u2: no row matched, the log of u2 is as it was.
C6_Witness ==
    \E m \in DOMAIN mutations :
        /\ mutations[m].kind = "update"
        /\ mutations[m].user = "u1"
        /\ mutations[m].error = "no row"
        /\ mutations[m].id = DiaryOfU2[1].id
        /\ Len(store) = 2
        /\ store[1] = DiaryOfU2[1]
        /\ store[2].user_id = "u1"
        /\ store[2].rating = JsNum(5)

\* A required string is missing: undefined or empty.
Missing(x) == x.k = "undefined" \/ x.s = ""

\* The inputs C7 has the validator reject.
Rejects(gameLog) ==
    \/ Missing(gameLog.game_id)
    \/ Missing(gameLog.mode)
    \/ gameLog.mode.s \notin {"attended", "watched"}
    \/ /\ gameLog.rating.k = "number"
       /\ gameLog.rating.twice \notin {2 * n : n \in 1 .. 5}

\* What the hook of mutation mu hands to the validator.
Candidate(mu) ==
    IF mu.kind = "update" THEN [mu.input EXCEPT !.game_id = JsStr("temp")] ELSE mu.input

\* C7: an add or update that got to the validator fails with a validation
\* error exactly when game_id or mode is missing, mode is neither attended nor
\* watched, or rating is a number that is not an integer of 1..5; what is
\* accepted goes on with its rating and mode as they were; and no step of a
\* mutation that fails so changes the store or the cache.
C7_ValidatorGate ==
    /\ [](\A m \in DOMAIN mutations :
            (mutations[m].kind \in {"add", "update"} /\ mutations[m].error \notin {"auth", "id"}) =>
                /\ mutations[m].error = "validation" <=> Rejects(Candidate(mutations[m]))
                /\ mutations[m].error # "validation" =>
                        /\ mutations[m].payload.rating = mutations[m].input.rating
                        /\ mutations[m].payload.mode = mutations[m].input.mode)
    /\ [][\A m \in DOMAIN mutations :
            (/\ mutations'[m] # mutations[m]
             /\ "validation" \in {mutations[m].error, mutations'[m].error}) =>
                (store' = store /\ cache' = cache)]_vars

\* The add of { game_id: "G1", mode: "attended", rating: 6 } has failed in the
\* validator, with the store as it was.
C7_Witness ==
    \E m \in DOMAIN mutations :
        /\ mutations[m].kind = "add"
        /\ mutations[m].error = "validation"
        /\ mutations[m].input = [BlankLog EXCEPT !.rating = JsNum(6)]
        /\ store = DiaryOfU2

\* C9: with no session, the entry list is never fetched and holds, if
\* anything, the empty list; an add, update or delete never gets to its remote
\* call and fails with the authentication error; the store stays as it was.
C9_NoSessionNoRemoteCall ==
    session = NoUser =>
        /\ store = DiaryOfU2
        /\ \A k \in DOMAIN cache :
              k[1] = "game-logs" =>
                /\ cache[k].fetch.st = "idle"
                /\ cache[k].data.has => cache[k].data.rows = <<>>
        /\ \A m \in DOMAIN mutations :
              mutations[m].pc # "idle" =>
                /\ mutations[m].pc \in {"mutating", "error", "rolledback"}
                /\ mutations[m].pc # "mutating" => mutations[m].error = "auth"

\* With no session the list was asked for, and an update has failed.
C9_Witness ==
    /\ session = NoUser
    /\ cache[GameLogsKey(NoUser)].data = Data(<<>>)
    /\ \E m \in DOMAIN mutations :
          mutations[m].kind = "update" /\ mutations[m].error = "auth"

\* The queries of the view have their data, none is being fetched or waits to be.
ViewSettled ==
    /\ \A m \in DOMAIN mutations : mutations[m].pc = "idle"
    /\ ~Unauthenticated(session)
    /\ \A k \in ObservedKeys(session, filters) :
          /\ k \in DOMAIN cache
          /\ cache[k].fetch.st = "idle"
          /\ ~cache[k].isInvalidated
          /\ cache[k].data.has

\* C10: when no mutation is under way and no refetch is left to do, the entry
\* list and the logged games the view shows are what the store holds.
C10_ViewCachesReflectStore ==
    ViewSettled =>
        \A k \in ObservedKeys(session, filters) : cache[k].data.rows = QueryFn(k, store)

\* The store has no row of this id that is this user's.
NoRowOf(rows, id, u) == \A i \in DOMAIN rows : rows[i].id # id \/ rows[i].user_id # u

\* C11: the remote call of an update whose id and user match no row fails, and
\* leaves the store as it is; no step of an update changes the cache, but the
\* one that follows its success, and that one invalidates the entry lists and
\* changes no data.
C11_UpdateMissesNothingChanges ==
    [][\A m \in DOMAIN mutations :
        (mutations'[m] # mutations[m] /\ "update" \in {mutations[m].kind, mutations'[m].kind}) =>
            /\ (/\ mutations[m].pc = "inflight"
                /\ mutations'[m].pc # "inflight"
                /\ NoRowOf(store, mutations[m].id, mutations[m].user)) =>
                    /\ mutations'[m].pc = "error"
                    /\ store' = store
            /\ mutations[m].pc # "success" => cache' = cache
            /\ mutations[m].pc = "success" =>
                    /\ store' = store
                    /\ \A k \in DOMAIN cache :
                          /\ cache'[k].data = cache[k].data
                          /\ k[1] = "logged-games" => cache'[k] = cache[k]]_vars

\* u1 has tried to update a log that is no longer in the store: the update
\* has failed, and the entry list, fetched before, is not invalidated.
C11_Witness ==
    \E m \in DOMAIN mutations :
        /\ mutations[m].kind = "update"
        /\ mutations[m].user = "u1"
        /\ mutations[m].error = "no row"
        /\ \A i \in DOMAIN store : store[i].id # mutations[m].id
        /\ cache[GameLogsKey("u1")].data.has
        /\ cache[GameLogsKey("u1")].fetch.st = "idle"
        /\ ~cache[GameLogsKey("u1")].isInvalidated

\* C12: the remote call of an update that succeeds leaves the store with the
\* same rows in the same places; the one row of the id and the user keeps its
\* id, user_id, game_id and created_at, and has as updated_at the time the
\* update was issued at; every other row is as it was.
C12_UpdateFrame ==
    [][\A m \in DOMAIN mutations :
        (/\ mutations[m].kind = "update"
         /\ mutations[m].pc = "inflight"
         /\ mutations'[m].pc = "success") =>
            /\ Len(store') = Len(store)
            /\ Cardinality({i \in DOMAIN store :
                    store[i].id = mutations[m].id /\ store[i].user_id = mutations[m].user}) = 1
            /\ \A i \in DOMAIN store :
                  IF store[i].id = mutations[m].id
                  THEN /\ store'[i].id = store[i].id
                       /\ store'[i].user_id = store[i].user_id
                       /\ store'[i].game_id = store[i].game_id
                       /\ store'[i].created_at = store[i].created_at
                       /\ store'[i].updated_at = mutations[m].at
                       /\ mutations[m].at >= store[i].updated_at
                       /\ mutations[m].at <= clock
                  ELSE store'[i] = store[i]]_vars

\* An update of the log of game G1 went through: the row has the new mode and
\* the trimmed notes, a later updated_at, and the game and creation time it had.
C12_Witness ==
    \E m \in DOMAIN mutations, i \in DOMAIN store :
        /\ mutations[m].kind = "update"
        /\ mutations[m].pc = "success"
        /\ store[i].id = mutations[m].id
        /\ store[i].mode = "watched"
        /\ store[i].notes = SanitizeText(Alex, NotesCap)
        /\ store[i].game_id = "G1"
        /\ store[i].updated_at > store[i].created_at
        /\ store[1] = DiaryOfU2[1]

\* The ids of the rows.
IdsOf(rows) == {rows[i].id : i \in DOMAIN rows}

\* The ids of the entry list of user u in cache c.
Listed(c, u) == IdsOf(GetQueryData(c, GameLogsKey(u)).rows)

\* The step onError of the delete in slot m.
RollsBack(m) ==
    /\ mutations[m].kind = "delete"
    /\ mutations[m].pc = "error"
    /\ mutations'[m].pc = "rolledback"

\* C13: the rollback of a failed delete brings back to the entry list no entry
\* that the store no longer holds (one whose delete went through), and takes
\* from the list no entry that the store holds and that no delete still under
\* way has removed from it (one whose delete failed and was rolled back).
C13_RollbackRestoresOwnEntryOnly ==
    [][\A m \in DOMAIN mutations :
        RollsBack(m) =>
            LET u == mutations[m].user
                stored == IdsOf(SelectGameLogs(store, u))
                underWay == {mutations[n].id : n \in {n \in DOMAIN mutations :
                                n # m /\ mutations[n].kind = "delete"}}
            IN  /\ (Listed(cache', u) \ Listed(cache, u)) \subseteq stored
                /\ (Listed(cache, u) \ Listed(cache', u)) \cap stored \subseteq underWay]_vars

\* C14: with one localStorage, the dialog of the WelcomeModal opens at most once.
C14_ShownAtMostOnce == welcome.opened <= 1


====
